---- MODULE Spec2Model ----
(***************************************************************************)
(* Mandate lifecycle (ConfigLoader.ensureMandateValid over                 *)
(* MandatesModule.verify / issue and HttpClient.handleError), payment      *)
(* settlement (PaymentsModule.submitTxHash, payWithWallet, verify and      *)
(* waitForConfirmation with their validators) and webhook verification     *)
(* (WebhooksModule.verifySignature / verifyAndParse) of the AgentGatePay   *)
(* JavaScript SDK.                                                         *)
(*                                                                         *)
(* Money is counted in thousandths of a dollar (0.01 USD = 10), time in    *)
(* milliseconds as Date.now() gives it, gateway timestamps in seconds.     *)
(* Strings the validators inspect are sequences of one-character strings.  *)
(***************************************************************************)
EXTENDS Integers, Sequences, FiniteSets, TLC

VARIABLES
    config,              \* ConfigLoader.config.mandate (fixed at construction)
    cachedMandateToken,  \* ConfigLoader.cachedMandateToken (0: undefined)
    mandateExpiresAt,    \* ConfigLoader.mandateExpiresAt, ms (0: undefined)
    now,                 \* Date.now(), ms
    gwIssued,            \* gateway: number of mandates issued so far
    gwBudget,            \* gateway: budget remaining per mandate
    gwExp,               \* gateway: expiry per mandate, epoch seconds
    overlaps,            \* number of invocations started while another was running
    calls,               \* the ensureMandateValid invocations in progress
    last,                \* how an ensureMandateValid invocation ended in the latest step
    sub,                 \* the submitTxHash invocation
    pay,                 \* the payWithWallet invocation
    poll,                \* the waitForConfirmation invocation
    hook,                \* the webhook handler's call of WebhooksModule
    ver                  \* the application's own call of MandatesModule

vars == <<config, cachedMandateToken, mandateExpiresAt, now, gwIssued, gwBudget,
          gwExp, overlaps, calls, last, sub, pay, poll, hook, ver>>

mandateVars == <<config, cachedMandateToken, mandateExpiresAt, now, gwIssued,
                 gwBudget, gwExp, overlaps, calls, last>>

-----------------------------------------------------------------------------
(* Bounds of the model *)

MaxTokens == 2
MaxOverlaps == 1

(* Program constants *)

DustThreshold == 10
DefaultTtlMinutes == 10080
MsPerSecond == 1000
SecondsPerMinute == 60
MinTokenLength == 10
TokenParts == 3
TxHashHexDigits == 64
DefaultRetryAfter == 60

Calls == {1, 2}
Tokens == 1..MaxTokens
ClockValues == {0, 604800000}
Remainders == {0, 10}

-----------------------------------------------------------------------------
(* JavaScript values *)

Undefined == [t |-> "undefined"]
NaN == [t |-> "NaN"]
PosInfinity == [t |-> "Infinity"]
NegInfinity == [t |-> "-Infinity"]
Num(n) == [t |-> "number", v |-> n]
Str(s) == [t |-> "string", s |-> s]

TypeofNumber(x) == x.t \in {"number", "NaN", "Infinity", "-Infinity"}
IsNaN(x) == x.t = "NaN"

\* x <= 0 on JavaScript numbers (false for NaN)
LeqZero(x) ==
    \/ x.t = "-Infinity"
    \/ x.t = "number" /\ x.v <= 0

\* x > m on JavaScript numbers (false for NaN)
GreaterThan(x, m) ==
    \/ x.t = "Infinity"
    \/ x.t = "number" /\ x.v > m

\* parseFloat of a payload field: a decimal string gives its value, anything
\* else (missing field, text that does not start with a number) gives NaN
ParseFloat(s) ==
    IF s.t = "decimal" THEN Num(s.v) ELSE NaN

Decimal(n) == [t |-> "decimal", v |-> n]
Garbage == [t |-> "text"]

-----------------------------------------------------------------------------
(* Errors *)

NoError == [name |-> "none", code |-> "none", reason |-> "none"]
Err(name, code) == [name |-> name, code |-> code, reason |-> "none"]
ErrReason(name, code, reason) == [name |-> name, code |-> code, reason |-> reason]

ValidationError == Err("ValidationError", "none")
TypeError == Err("TypeError", "none")

\* new RateLimitError(message, retryAfter, limit, remaining)
RateLimitError(retryAfter, limit, remaining) ==
    [name |-> "RateLimitError", code |-> "RATE_LIMIT_EXCEEDED", reason |-> "none",
     retryAfter |-> retryAfter, limit |-> limit, remaining |-> remaining]
AuthenticationError == Err("AuthenticationError", "AUTHENTICATION_FAILED")
InvalidTransactionError(reason) ==
    ErrReason("InvalidTransactionError", "INVALID_TRANSACTION", reason)
MandateError(reason) == ErrReason("MandateError", "MANDATE_ERROR", reason)
NetworkError == Err("AgentPayError", "NETWORK_ERROR")
ApiError == Err("AgentPayError", "API_ERROR")

\* the first error a sequence of checks throws
RECURSIVE FirstError(_)
FirstError(errs) ==
    IF errs = <<>> THEN NoError
    ELSE IF Head(errs) # NoError THEN Head(errs)
    ELSE FirstError(Tail(errs))

-----------------------------------------------------------------------------
(* utils/validation.ts *)

SUPPORTED_CHAINS == {"ethereum", "base", "polygon", "arbitrum"}
SUPPORTED_TOKENS == {"USDC", "USDT", "DAI"}

HexChars ==
    {"0", "1", "2", "3", "4", "5", "6", "7", "8", "9",
     "a", "b", "c", "d", "e", "f", "A", "B", "C", "D", "E", "F"}

\* !value of a string argument: undefined and '' are falsy
Falsy(x) == x.t = "undefined" \/ (x.t = "string" /\ x.s = <<>>)

validateRequired(value) ==
    IF Falsy(value) THEN ValidationError ELSE NoError

validateChain(chain) ==
    IF chain.t = "string" /\ chain.s \in SUPPORTED_CHAINS
    THEN NoError ELSE ValidationError

validateToken(token) ==
    IF token.t = "string" /\ token.s \in SUPPORTED_TOKENS
    THEN NoError ELSE ValidationError

validateAmount(amount) ==
    IF ~TypeofNumber(amount) \/ IsNaN(amount) \/ LeqZero(amount)
    THEN ValidationError ELSE NoError

\* token.split('.').length
SplitCount(s) == Cardinality({i \in 1..Len(s) : s[i] = "."}) + 1

validateMandateToken(token) ==
    IF Falsy(token) \/ token.t # "string" \/ Len(token.s) < MinTokenLength
    THEN ValidationError
    ELSE IF SplitCount(token.s) # TokenParts THEN ValidationError
    ELSE NoError

\* /^0x[a-fA-F0-9]{64}$/.test(txHash)
TxHashRegexTest(s) ==
    /\ Len(s) = 2 + TxHashHexDigits
    /\ s[1] = "0"
    /\ s[2] = "x"
    /\ \A i \in 3..Len(s) : s[i] \in HexChars

validateTxHash(txHash) ==
    IF Falsy(txHash) \/ ~TxHashRegexTest(txHash.s)
    THEN ValidationError ELSE NoError

-----------------------------------------------------------------------------
(* utils/http.ts: answers of the gateway and HttpClient.handleError *)

\* An answer: status 0 stands for "no response from server"; message is
\* data.error (the words of the gateway's error text, <<>> when absent);
\* reason is data.reason; data is the body.
Answer(status, message, reason, data) ==
    [status |-> status, message |-> message, reason |-> reason, data |-> data]

AxiosMessage == <<"Request", "failed", "with", "status", "code">>

\* a test that takes any error message for a transaction error
IncludesTransaction_Any(message) == TRUE

\* errorMessage.includes('transaction'): case-sensitive; a message is the
\* sequence of its words
IncludesTransaction(message) ==
    \E i \in 1..Len(message) : message[i] = "transaction"

IsSuccessStatus(status) == status >= 200 /\ status < 300

\* an error handler without the rate-limit case
handleError_NoRateLimit(ans) ==
    LET errorMessage == IF ans.message # <<>> THEN ans.message ELSE AxiosMessage
    IN  IF ans.status = 0 THEN NetworkError
        ELSE IF ans.status = 401 THEN AuthenticationError
        ELSE IF ans.status = 400 /\ IncludesTransaction(errorMessage)
             THEN InvalidTransactionError(
                    IF ans.reason # "" THEN ans.reason ELSE "Unknown reason")
        ELSE ApiError

\* the rate-limit headers of an answer (retry-after, x-ratelimit-limit,
\* x-ratelimit-remaining) are decimal strings or absent
handleError(ans) ==
    LET errorMessage == IF ans.message # <<>> THEN ans.message ELSE AxiosMessage
        headers == IF "headers" \in DOMAIN ans THEN ans.headers
                   ELSE [retryAfter |-> Undefined, limit |-> Undefined,
                         remaining |-> Undefined]
        \* parseInt(header || fallback)
        ParseIntOr(header, fallback) ==
            IF header.t = "undefined" THEN fallback ELSE header.v
    IN  IF ans.status = 0 THEN NetworkError
        ELSE IF ans.status = 429
             THEN RateLimitError(ParseIntOr(headers.retryAfter, DefaultRetryAfter),
                                 ParseIntOr(headers.limit, 0),
                                 ParseIntOr(headers.remaining, 0))
        ELSE IF ans.status = 401 THEN AuthenticationError
        ELSE IF ans.status = 400 /\ IncludesTransaction(errorMessage)
             THEN InvalidTransactionError(
                    IF ans.reason # "" THEN ans.reason ELSE "Unknown reason")
        ELSE ApiError

NoData == [t |-> "undefined"]

NoResponse == Answer(0, <<>>, "", NoData)
Unauthorized == Answer(401, <<"Invalid", "API", "key">>, "", NoData)
\* HTTP 429 with retry-after: 30 and x-ratelimit-limit: 100, and without
\* x-ratelimit-remaining
TooManyRequests ==
    [status |-> 429, message |-> <<"Rate", "limit", "exceeded">>, reason |-> "",
     data |-> NoData,
     headers |-> [retryAfter |-> Decimal(30), limit |-> Decimal(100),
                  remaining |-> Undefined]]
ServerError == Answer(500, <<>>, "", NoData)
BadRequest == Answer(400, <<"Bad", "request">>, "", NoData)
EmptyBody == Answer(200, <<>>, "", NoData)

\* what the gateway or the network can answer to any request instead of data
TransportFailures ==
    {NoResponse, Unauthorized, TooManyRequests, ServerError}

-----------------------------------------------------------------------------
(* modules/mandates.ts *)

\* the text of the mandate token the gateway issued as its t-th: a JWT
MandateTokenText(t) ==
    Str(<<"e", "y", "J", "h", <<"1", "2", "3", "4", "5", "6", "7", "8", "9">>[t],
          ".", "p", "l", "d", ".", "s", "i", "g">>)

\* MandatesModule.verify before its request: the validation that can throw
verifyValidation(mandateToken) ==
    FirstError(<<validateRequired(mandateToken),
                 validateMandateToken(mandateToken)>>)

\* MandatesModule.verify after its request: what it throws, or the data it returns
verifyOutcome(ans) ==
    IF ~IsSuccessStatus(ans.status)
    THEN [err |-> handleError(ans), data |-> NoData]
    ELSE IF ans.data.t = "undefined"
    THEN [err |-> MandateError("VERIFY_FAILED"), data |-> NoData]
    ELSE IF ~ans.data.valid /\ ans.data.error
    THEN [err |-> MandateError("VERIFICATION_FAILED"), data |-> NoData]
    ELSE [err |-> NoError, data |-> ans.data]

\* ttlMinutes <= 0 on a JavaScript number
InvalidTtl(ttlMinutes) == LeqZero(ttlMinutes)

\* MandatesModule.issue before its request
issueValidation(subject, budget, ttlMinutes) ==
    FirstError(<<validateRequired(subject),
                 validateAmount(budget),
                 IF InvalidTtl(ttlMinutes)
                 THEN MandateError("INVALID_TTL") ELSE NoError>>)

\* an issue that reports every failure as a MandateError
issueOutcome_Wraps(ans) ==
    IF ~IsSuccessStatus(ans.status) \/ ans.data.t = "undefined"
    THEN [err |-> MandateError("ISSUE_FAILED"), data |-> NoData]
    ELSE [err |-> NoError, data |-> ans.data]

\* MandatesModule.issue after its request
issueOutcome(ans) ==
    IF ~IsSuccessStatus(ans.status)
    THEN [err |-> handleError(ans), data |-> NoData]
    ELSE IF ans.data.t = "undefined"
    THEN [err |-> MandateError("ISSUE_FAILED"), data |-> NoData]
    ELSE [err |-> NoError, data |-> ans.data]

-----------------------------------------------------------------------------
(* config-loader.ts *)

\* x || d for a number option: undefined, 0 and NaN are falsy
OrDefault(x, d) ==
    IF x.t = "undefined" \/ x.t = "NaN" \/ (x.t = "number" /\ x.v = 0)
    THEN d ELSE x

getMandateConfig ==
    [subject |-> config.agentId,
     budgetUsd |-> config.budgetUsd,
     ttlMinutes |-> OrDefault(config.ttlMinutes, Num(DefaultTtlMinutes)),
     scope |-> IF Falsy(config.scope) THEN Str(<<"*">>) ELSE config.scope]

\* a guard that does not look at the expiry
CacheUsable_IgnoresExpiry(token, expiresAt, time) == token # 0

\* the guard of ensureMandateValid: a cached token whose expiry lies ahead
CacheUsable(token, expiresAt, time) ==
    token # 0 /\ expiresAt # 0 /\ expiresAt > time

\* budgetRemaining < 0.01: the comparison the wrong way round
BudgetSufficient_Flipped(budgetRemaining) ==
    budgetRemaining.t = "-Infinity"
    \/ (budgetRemaining.t = "number" /\ budgetRemaining.v < DustThreshold)

\* budgetRemaining >= 0.01: the threshold itself taken as sufficient
BudgetSufficient_Inclusive(budgetRemaining) ==
    GreaterThan(budgetRemaining, DustThreshold - 1)

\* budgetRemaining > 0.01
BudgetSufficient(budgetRemaining) ==
    GreaterThan(budgetRemaining, DustThreshold)

\* a catch clause that rethrows what is not a MandateError
VerifyCaught_OnlyMandateError(e) == e.name \in {"none", "MandateError"}

\* the catch clause around the verification: it catches whatever is thrown
VerifyCaught(e) == TRUE

\* what the verification told the call about the token it sent:
\*   good: valid with a sufficient budget;  exhausted: valid, budget <= 0.01;
\*   invalid: reported not valid;  unusable: valid but no budget can be read;
\*   error: no verification result at all
Verdict(out) ==
    IF out.err # NoError
    THEN IF out.err.reason = "VERIFICATION_FAILED" THEN "invalid" ELSE "error"
    ELSE IF ~out.data.valid THEN "invalid"
    ELSE IF out.data.payload.t = "undefined" THEN "error"
    ELSE LET budgetRemaining == ParseFloat(out.data.payload.budget_remaining)
         IN  IF BudgetSufficient(budgetRemaining) THEN "good"
             ELSE IF budgetRemaining.t = "number" THEN "exhausted"
             ELSE "unusable"

\* assignments of which only the first takes effect once a mandate is cached
NewCache_KeepsExpiry(mandate) ==
    [token |-> mandate.mandateToken,
     expiresAt |-> IF mandateExpiresAt # 0 THEN mandateExpiresAt
                   ELSE mandate.expiresAt * MsPerSecond]

\* the cache after a successful issuance
NewCache(mandate) ==
    [token |-> mandate.mandateToken,
     expiresAt |-> mandate.expiresAt * MsPerSecond]

\* a failed issuance that resets the cache
CacheAfterIssue_ClearsOnFailure(out) ==
    IF out.err # NoError
    THEN [token |-> 0, expiresAt |-> 0]
    ELSE NewCache(out.data)

\* a failed issuance that marks the cached mandate as expired
CacheAfterIssue_ExpiresOnFailure(out) ==
    IF out.err # NoError
    THEN [token |-> cachedMandateToken, expiresAt |-> 0]
    ELSE NewCache(out.data)

\* an issuance that leaves alone a cache which is still usable
CacheAfterIssue_KeepsUsable(out) ==
    IF out.err # NoError
       \/ CacheUsable(cachedMandateToken, mandateExpiresAt, now)
    THEN [token |-> cachedMandateToken, expiresAt |-> mandateExpiresAt]
    ELSE NewCache(out.data)

\* the cache once client.mandates.issue has settled with out: a rejection
\* leaves ensureMandateValid before its assignments, a mandate is cached
CacheAfterIssue(out) ==
    IF out.err # NoError
    THEN [token |-> cachedMandateToken, expiresAt |-> mandateExpiresAt]
    ELSE NewCache(out.data)

NoRequest == [t |-> "undefined"]

\* an invocation of ensureMandateValid: where it stands (pc), the token it
\* sent to verification (tok, 0: none), the request body and what the gateway
\* has made of the request (snap); reported: what the answer to its
\* verification said (see Reported; "none" before any answer);
\* prev: the token the invocation before it issued
\* and returned, as long as no other invocation has run since (0: none);
\* verifies, issues: the verify and issue requests it has sent so far;
\* cold: it was entered with no token cached, or with a cached expiry not
\* later than the time of entry
IdleCall ==
    [pc |-> "idle", tok |-> 0, snap |-> NoData, req |-> NoRequest,
     reported |-> "none", prev |-> 0, verifies |-> 0, issues |-> 0,
     cold |-> FALSE]

\* no answer: the invocation ended without an answer to process
NoAnswer == Answer(-1, <<>>, "", NoData)

\* how invocation c ended, as its caller sees it in the step in which it ends
\* (every other step leaves NoneEnded): in which part (at: "verify" for the
\* verification, "issue" for the issuance), on which answer (ans), the token
\* it returned (ret, 0: none) or the error it threw (err), the token it issued
\* (issued, 0: none), and the cache as that step found it
Ended(c, at, ans, issued, ret, err) ==
    [at |-> at, ans |-> ans, ret |-> ret, err |-> err, issued |-> issued,
     tok |-> c.tok, reported |-> c.reported, prev |-> c.prev,
     verifies |-> c.verifies, issues |-> c.issues, cold |-> c.cold,
     cacheWas |-> cachedMandateToken, expiresWas |-> mandateExpiresAt]

NoneEnded ==
    [at |-> "none", ans |-> NoAnswer, ret |-> 0, err |-> NoError, issued |-> 0,
     tok |-> 0, reported |-> "none", prev |-> 0, verifies |-> 0, issues |-> 0,
     cold |-> FALSE, cacheWas |-> 0, expiresWas |-> 0]

Active(c) == c.pc # "idle"

\* "Create new mandate": from the comment of line 220 to the request of
\* client.mandates.issue; c is the call so far. The result is the call at its
\* await, or the error thrown before any request.
BeginIssue(c) ==
    LET mandateConfig == getMandateConfig
        thrown == issueValidation(mandateConfig.subject, mandateConfig.budgetUsd,
                                  mandateConfig.ttlMinutes)
    IN  IF thrown # NoError
        THEN [next |-> IdleCall, thrown |-> thrown]
        ELSE [next |-> [c EXCEPT !.pc = "issueReq",
                                 !.issues = @ + 1,
                                 !.req = [t |-> "object",
                                          subject |-> mandateConfig.subject,
                                          budget |-> mandateConfig.budgetUsd,
                                          scope |-> mandateConfig.scope,
                                          ttlMinutes |-> mandateConfig.ttlMinutes]],
              thrown |-> NoError]

\* the other invocations in progress when invocation p starts or ends
Others(p) ==
    [q \in Calls |->
        IF q # p /\ Active(calls[q])
        THEN [calls[q] EXCEPT !.prev = 0]
        ELSE calls[q]]

\* ensureMandateValid up to its first await. Invocations are told apart by
\* the slot they run in; a new one takes the lowest slot that is free.
Start(p) ==
    /\ ~Active(calls[p])
    /\ \A q \in Calls : q < p => Active(calls[q])
    /\ IF \E q \in Calls \ {p} : Active(calls[q])
       THEN overlaps < MaxOverlaps /\ overlaps' = overlaps + 1
       ELSE overlaps' = overlaps
    /\ LET c0 == [IdleCall EXCEPT
                    !.prev = IF /\ \A q \in Calls \ {p} : ~Active(calls[q])
                                /\ last.err = NoError /\ last.issued # 0
                             THEN last.ret ELSE 0,
                    !.cold = cachedMandateToken = 0 \/ mandateExpiresAt <= now]
           usable == CacheUsable(cachedMandateToken, mandateExpiresAt, now)
           thrown == verifyValidation(MandateTokenText(cachedMandateToken))
           issue == BeginIssue(c0)
       IN  IF usable /\ thrown = NoError
           THEN /\ calls' = [Others(p) EXCEPT
                               ![p] = [c0 EXCEPT !.pc = "verifyReq",
                                                 !.verifies = @ + 1,
                                                 !.tok = cachedMandateToken]]
                /\ last' = NoneEnded
           ELSE IF usable /\ ~VerifyCaught(thrown)
           THEN /\ calls' = Others(p)
                /\ last' = Ended(c0, "verify", NoAnswer, 0, 0, thrown)
           ELSE IF issue.thrown # NoError
           THEN /\ calls' = Others(p)
                /\ last' = Ended(c0, "issue", NoAnswer, 0, 0, issue.thrown)
           ELSE /\ calls' = [Others(p) EXCEPT ![p] = issue.next]
                /\ last' = NoneEnded
    /\ UNCHANGED <<config, cachedMandateToken, mandateExpiresAt, now, gwIssued,
                   gwBudget, gwExp, sub, pay, poll, hook, ver>>

-----------------------------------------------------------------------------
(* The gateway, as the SDK's types describe it *)

\* a mandate the gateway still honours: issued and not expired
GatewayHonours(t) ==
    /\ t \in 1..gwIssued
    /\ now \div MsPerSecond < gwExp[t]

VerifyData(valid, error, payload) ==
    [t |-> "object", valid |-> valid, error |-> error, payload |-> payload]

Payload(budget_remaining) ==
    [t |-> "object", budget_remaining |-> budget_remaining]

\* what the gateway found when it looked a mandate up
Snapshot(honoured, budget) ==
    [t |-> "snapshot", honoured |-> honoured,
     budget |-> IF honoured THEN budget ELSE 0]

\* VerifyMandateResponse bodies by which the gateway can report a snapshot
VerifyAnswers(snap) ==
    IF snap.honoured
    THEN {Answer(200, <<>>, "", VerifyData(TRUE, FALSE, Payload(Decimal(snap.budget)))),
          Answer(200, <<>>, "", VerifyData(TRUE, FALSE, Payload(Garbage))),
          Answer(200, <<>>, "", VerifyData(TRUE, FALSE, NoData))}
         \cup (IF snap.budget = 0
               THEN {Answer(200, <<>>, "", VerifyData(FALSE, TRUE, NoData))}
               ELSE {})
    ELSE {Answer(200, <<>>, "", VerifyData(FALSE, TRUE, NoData)),
          Answer(200, <<>>, "", VerifyData(FALSE, FALSE, NoData))}

\* what can come back for POST /mandates/verify
VerifyResponses(snap) ==
    VerifyAnswers(snap) \cup TransportFailures \cup {EmptyBody}

\* what an answer to POST /mandates/verify says, read off the answer itself:
\*   failed: no usable body (transport failure, empty body, no payload);
\*   invalid: the mandate is reported not valid;  unreadable: valid, but the
\*   budget is no number;  exhausted: valid, budget_remaining <= 0.01;
\*   sufficient: valid, budget_remaining > 0.01;  limited: HTTP 429
Reported(ans) ==
    IF ans.status = 429 THEN "limited"
    ELSE IF ans.status # 200 \/ ans.data.t = "undefined" THEN "failed"
    ELSE IF ~ans.data.valid THEN "invalid"
    ELSE IF ans.data.payload.t = "undefined" THEN "failed"
    ELSE IF ans.data.payload.budget_remaining.t # "decimal" THEN "unreadable"
    ELSE IF ans.data.payload.budget_remaining.v <= DustThreshold THEN "exhausted"
    ELSE "sufficient"

\* what can come back for POST /mandates/issue: the mandate the gateway
\* issued, if it issued one and the response is not lost
IssueResponses(mandate) ==
    IF mandate.t = "object"
    THEN {Answer(200, <<>>, "", mandate)}
    ELSE TransportFailures \cup {EmptyBody}

\* the gateway handles POST /mandates/verify: it looks the mandate up
GatewayVerify(p) ==
    /\ calls[p].pc = "verifyReq"
    /\ LET t == calls[p].tok
       IN  calls' = [calls EXCEPT
              ![p].pc = "verifyResp",
              ![p].snap = Snapshot(GatewayHonours(t), gwBudget[t])]
    /\ UNCHANGED <<config, cachedMandateToken, mandateExpiresAt, now, gwIssued,
                   gwBudget, gwExp, overlaps, sub, pay, poll, hook, ver>>
    /\ last' = NoneEnded

\* the gateway handles POST /mandates/issue: it issues a mandate, or not
GatewayIssue(p) ==
    /\ calls[p].pc = "issueReq"
    /\ \/ /\ gwIssued < MaxTokens
          /\ LET t == gwIssued + 1
                 iat == now \div MsPerSecond
                 exp == iat + calls[p].req.ttlMinutes.v * SecondsPerMinute
             IN  /\ gwIssued' = t
                 /\ gwBudget' = [gwBudget EXCEPT ![t] = calls[p].req.budget.v]
                 /\ gwExp' = [gwExp EXCEPT ![t] = exp]
                 /\ calls' = [calls EXCEPT
                        ![p].pc = "issueResp",
                        ![p].snap = [t |-> "object", mandateToken |-> t,
                                     issuedAt |-> iat, expiresAt |-> exp]]
       \/ /\ calls' = [calls EXCEPT ![p].pc = "issueResp", ![p].snap = NoData]
          /\ UNCHANGED <<gwIssued, gwBudget, gwExp>>
    /\ UNCHANGED <<config, cachedMandateToken, mandateExpiresAt, now, overlaps,
                   sub, pay, poll, hook, ver>>
    /\ last' = NoneEnded

\* a payment is settled against mandate t: the gateway deducts its amount.
\* Only mandates the SDK can still ask about are followed.
GatewaySettle(t, amount) ==
    /\ GatewayHonours(t)
    /\ \/ t = cachedMandateToken
       \/ \E p \in Calls : calls[p].pc = "verifyReq" /\ calls[p].tok = t
    /\ amount > 0
    /\ amount <= gwBudget[t]
    /\ gwBudget' = [gwBudget EXCEPT ![t] = @ - amount]
    /\ UNCHANGED <<config, cachedMandateToken, mandateExpiresAt, now, gwIssued,
                   gwExp, overlaps, calls, sub, pay, poll, hook, ver>>
    /\ last' = NoneEnded

\* time passes
Tick ==
    /\ \E time \in ClockValues : time > now /\ now' = time
    /\ UNCHANGED <<config, cachedMandateToken, mandateExpiresAt, gwIssued,
                   gwBudget, gwExp, overlaps, calls, sub, pay, poll, hook, ver>>
    /\ last' = NoneEnded

-----------------------------------------------------------------------------
(* config-loader.ts: ensureMandateValid after its awaits *)

\* from the answer ans of client.mandates.verify to the return of the cached
\* token or to the request of client.mandates.issue
VerifyResumeWith(p, ans) ==
    /\ calls[p].pc = "verifyResp"
    /\ ans \in VerifyResponses(calls[p].snap)
    /\ LET c == calls[p]
           out == verifyOutcome(ans)
           verdict == Verdict(out)
           c1 == [c EXCEPT !.reported = Reported(ans), !.snap = NoData]
           issue == BeginIssue(c1)
           \* what the try block throws: the rejection of verify, or the
           \* TypeError of reading budget_remaining of a missing payload
           thrown == IF out.err # NoError THEN out.err
                     ELSE IF out.data.valid /\ out.data.payload.t = "undefined"
                     THEN TypeError
                     ELSE NoError
       IN  /\ IF thrown # NoError /\ ~VerifyCaught(thrown)
              THEN /\ calls' = [calls EXCEPT ![p] = IdleCall]
                   /\ last' = Ended(c1, "verify", ans, 0, 0, thrown)
              ELSE IF verdict = "good"
              THEN /\ calls' = [calls EXCEPT ![p] = IdleCall]
                   /\ last' = Ended(c1, "verify", ans, 0, cachedMandateToken, NoError)
              ELSE IF issue.thrown # NoError
              THEN /\ calls' = [calls EXCEPT ![p] = IdleCall]
                   /\ last' = Ended(c1, "issue", NoAnswer, 0, 0, issue.thrown)
              ELSE /\ calls' = [calls EXCEPT ![p] = issue.next]
                   /\ last' = NoneEnded
    /\ UNCHANGED <<config, cachedMandateToken, mandateExpiresAt, now, gwIssued,
                   gwBudget, gwExp, overlaps, sub, pay, poll, hook, ver>>

VerifyResume(p) ==
    /\ calls[p].pc = "verifyResp"
    /\ \E ans \in VerifyResponses(calls[p].snap) : VerifyResumeWith(p, ans)

\* from the answer ans of client.mandates.issue to the end of the call
IssueResumeWith(p, ans) ==
    /\ calls[p].pc = "issueResp"
    /\ ans \in IssueResponses(calls[p].snap)
    /\ LET c == calls[p]
           out == issueOutcome(ans)
           cache == CacheAfterIssue(out)
       IN  /\ cachedMandateToken' = cache.token
           /\ mandateExpiresAt' = cache.expiresAt
           /\ IF out.err # NoError
              THEN /\ calls' = [calls EXCEPT ![p] = IdleCall]
                   /\ last' = Ended(c, "issue", ans, 0, 0, out.err)
              ELSE /\ calls' = [Others(p) EXCEPT ![p] = IdleCall]
                   /\ last' = Ended(c, "issue", ans, out.data.mandateToken,
                                     cache.token, NoError)
    /\ UNCHANGED <<config, now, gwIssued, gwBudget, gwExp, overlaps, sub, pay,
                   poll, hook, ver>>

IssueResume(p) ==
    /\ calls[p].pc = "issueResp"
    /\ \E ans \in IssueResponses(calls[p].snap) : IssueResumeWith(p, ans)

-----------------------------------------------------------------------------
(* The mandate lifecycle *)

Configs ==
    [agentId : {Str(<<"a", "@", "b">>)},
     budgetUsd : {Num(10000)},
     ttlMinutes : {Undefined, Num(-5)},
     scope : {Undefined}]

NoSubmit == [pc |-> "unused"]
\* payWithWallet, waitForConfirmation, the webhook handler, the
\* application's own use of MandatesModule: not in use
Unused == [pc |-> "unused"]

Init ==
    /\ config \in Configs
    /\ cachedMandateToken = 0
    /\ mandateExpiresAt = 0
    /\ now = 0
    /\ gwIssued = 0
    /\ gwBudget = [t \in Tokens |-> 0]
    /\ gwExp = [t \in Tokens |-> 0]
    /\ overlaps = 0
    /\ calls = [p \in Calls |-> IdleCall]
    /\ last = NoneEnded
    /\ sub = NoSubmit
    /\ pay = Unused
    /\ poll = Unused
    /\ hook = Unused
    /\ ver = Unused

Next ==
    \/ \E p \in Calls : Start(p)
    \/ \E p \in Calls : GatewayVerify(p)
    \/ \E p \in Calls : VerifyResume(p)
    \/ \E p \in Calls : GatewayIssue(p)
    \/ \E p \in Calls : IssueResume(p)
    \/ \E t \in Tokens, left \in Remainders : GatewaySettle(t, gwBudget[t] - left)
    \/ Tick

Spec == Init /\ [][Next]_vars


-----------------------------------------------------------------------------
(* modules/payments.ts: PaymentsModule.submitTxHash *)

\* a parameter's default value, taken when the argument is undefined
DefaultTo(x, d) == IF x.t = "undefined" THEN d ELSE x

\* a || b || c on values that are numbers or undefined
FirstTruthy(a, b, c) ==
    LET falsy(x) == x.t \in {"undefined", "NaN"} \/ (x.t = "number" /\ x.v = 0)
    IN  IF ~falsy(a) THEN a ELSE IF ~falsy(b) THEN b ELSE c

Repeat(ch, n) == [i \in 1..n |-> ch]

GoodTxHash == Str(<<"0", "x">> \o Repeat("a", TxHashHexDigits))
MixedCaseTxHash ==
    Str(<<"0", "x">> \o [i \in 1..TxHashHexDigits |-> IF i % 2 = 0 THEN "F" ELSE "9"])
ShortTxHash == Str(<<"0", "x", "a", "b">>)
NonHexTxHash == Str(<<"0", "x">> \o Repeat("g", TxHashHexDigits))
NoPrefixTxHash == Str(Repeat("a", 2 + TxHashHexDigits))
EmptyString == Str(<<>>)

\* the arguments submitTxHash is called with
SubmitArgs ==
    [mandate : {MandateTokenText(1), Str(<<"a", ".", "b", ".", "c">>),
                Str(<<"e", "y", "J", "h", "b", "G", "c", "i", "O", "i", ".", "p">>),
                EmptyString},
     txHash : {GoodTxHash, ShortTxHash, NonHexTxHash, NoPrefixTxHash, EmptyString},
     txHashCommission : {Undefined, EmptyString, MixedCaseTxHash, NonHexTxHash},
     chain : {Undefined, Str("polygon"), Str("solana")},
     token : {Undefined, Str("DAI"), Str("BTC")},
     priceUsd : {Undefined, Num(5000), Num(0), Num(-1000), NaN, PosInfinity,
                 NegInfinity, Str(<<"5">>)}]

\* the checks of submitTxHash, in their order; the first that fails throws
submitValidation(mandate, txHash, txHashCommission, chain, token, priceUsd) ==
    FirstError(<<validateRequired(mandate),
                 validateRequired(txHash),
                 validateMandateToken(mandate),
                 validateTxHash(txHash),
                 validateChain(chain),
                 validateToken(token),
                 IF ~Falsy(txHashCommission)
                 THEN validateTxHash(txHashCommission) ELSE NoError,
                 IF priceUsd.t # "undefined"
                 THEN validateAmount(priceUsd) ELSE NoError>>)

\* a request whose payment assertion leaves the commission hash out
submitRequest_NoCommission(mandate, txHash, txHashCommission, chain, token, priceUsd) ==
    [t |-> "object",
     xMandate |-> mandate,
     xPayment |-> [scheme |-> "eip3009", tx_hash |-> txHash,
                   tx_hash_commission |-> Undefined],
     chain |-> chain,
     token |-> token,
     price_usd |-> priceUsd]

\* the GET /x402/resource request: its headers and its query
submitRequest(mandate, txHash, txHashCommission, chain, token, priceUsd) ==
    [t |-> "object",
     xMandate |-> mandate,
     xPayment |-> [scheme |-> "eip3009",
                   tx_hash |-> txHash,
                   tx_hash_commission |->
                       IF ~Falsy(txHashCommission) THEN txHashCommission
                       ELSE Undefined],
     chain |-> chain,
     token |-> token,
     price_usd |-> priceUsd]

NoResult == [t |-> "undefined"]

\* what submitTxHash makes of the answer to its request: the result it
\* returns or the error it throws
submitOutcome(ans, txHash, txHashCommission, priceUsd) ==
    IF IsSuccessStatus(ans.status)
    THEN [err |-> NoError,
          result |->
            [t |-> "object", success |-> TRUE, status |-> "completed",
             txHash |-> txHash, txHashCommission |-> txHashCommission,
             amountUsd |-> FirstTruthy(IF ans.data.t = "object"
                                       THEN ans.data.amount_usd ELSE Undefined,
                                       priceUsd, Num(0)),
             budgetRemaining |-> FirstTruthy(IF ans.data.t = "object"
                                             THEN ans.data.budget_remaining
                                             ELSE Undefined,
                                             Num(0), Num(0)),
             error |-> "",
             resource |-> ans.data]]
    ELSE LET error == handleError(ans)
         IN  IF error.name = "InvalidTransactionError"
             THEN [err |-> NoError,
                   result |->
                     [t |-> "object", success |-> FALSE, status |-> "failed",
                      txHash |-> txHash, txHashCommission |-> txHashCommission,
                      amountUsd |-> Num(0), budgetRemaining |-> Num(0),
                      error |-> error.reason,
                      resource |-> NoData]]
             ELSE [err |-> error, result |-> NoResult]

\* bodies and rejections the gateway can answer GET /x402/resource with
SubmitData(amount_usd, budget_remaining) ==
    [t |-> "object", amount_usd |-> amount_usd,
     budget_remaining |-> budget_remaining]

\* a rejection of the transaction: HTTP 400 with the gateway's error text and
\* its reason
Rejection(message, reason) == Answer(400, message, reason, NoData)

SubmitRejections ==
    {Rejection(<<"Invalid", "transaction", "amount">>, "amount_mismatch"),
     Rejection(<<"Transaction", "already", "spent">>, "already_spent"),
     Rejection(<<"Payment", "sent", "to", "wrong", "recipient">>, "wrong_recipient"),
     Rejection(<<>>, "amount_mismatch"),
     Rejection(<<"Invalid", "transaction">>, "")}

SubmitResponses ==
    {Answer(200, <<>>, "", SubmitData(Num(5000), Num(5000))),
     Answer(200, <<>>, "", SubmitData(Undefined, Undefined)),
     EmptyBody, BadRequest}
    \cup SubmitRejections \cup TransportFailures

\* the submitTxHash invocation; sent: the requests it has sent so far
ReadySubmit ==
    [pc |-> "ready", args |-> NoData, request |-> NoRequest, sent |-> 0,
     ans |-> NoAnswer, result |-> NoResult, err |-> NoError]

\* submitTxHash up to its await
SubmitTxHash(a) ==
    /\ sub.pc = "ready"
    /\ LET chain == DefaultTo(a.chain, Str("base"))
           token == DefaultTo(a.token, Str("USDC"))
           thrown == submitValidation(a.mandate, a.txHash, a.txHashCommission,
                                      chain, token, a.priceUsd)
       IN  IF thrown # NoError
           THEN sub' = [ReadySubmit EXCEPT !.pc = "done", !.args = a,
                                           !.err = thrown]
           ELSE sub' = [ReadySubmit EXCEPT
                          !.pc = "sent", !.args = a, !.sent = @ + 1,
                          !.request = submitRequest(a.mandate, a.txHash,
                                                    a.txHashCommission, chain,
                                                    token, a.priceUsd)]
    /\ UNCHANGED mandateVars

\* a submitTxHash that sends its request once more when no response came
SubmitResume_RetriesOnce(ans) ==
    /\ sub.pc = "sent"
    /\ LET out == submitOutcome(ans, sub.args.txHash, sub.args.txHashCommission,
                                sub.args.priceUsd)
       IN  sub' = IF ans.status = 0 /\ sub.sent < 2
                  THEN [sub EXCEPT !.sent = @ + 1]
                  ELSE [sub EXCEPT !.pc = "done", !.ans = ans,
                                   !.result = out.result, !.err = out.err]
    /\ UNCHANGED mandateVars

\* submitTxHash from the answer to its request to its end
SubmitResume(ans) ==
    /\ sub.pc = "sent"
    /\ LET out == submitOutcome(ans, sub.args.txHash, sub.args.txHashCommission,
                                sub.args.priceUsd)
       IN  sub' = [sub EXCEPT !.pc = "done", !.ans = ans,
                              !.result = out.result, !.err = out.err]
    /\ UNCHANGED mandateVars

\* the caller takes the result; submitTxHash can be called again
SubmitReturn ==
    /\ sub.pc = "done"
    /\ sub' = ReadySubmit
    /\ UNCHANGED mandateVars

SubmitInit ==
    /\ config \in Configs
    /\ cachedMandateToken = 0
    /\ mandateExpiresAt = 0
    /\ now = 0
    /\ gwIssued = 0
    /\ gwBudget = [t \in Tokens |-> 0]
    /\ gwExp = [t \in Tokens |-> 0]
    /\ overlaps = 0
    /\ calls = [p \in Calls |-> IdleCall]
    /\ last = NoneEnded
    /\ sub = ReadySubmit
    /\ pay = Unused
    /\ poll = Unused
    /\ hook = Unused
    /\ ver = Unused

SubmitNext ==
    \/ (\E a \in SubmitArgs : SubmitTxHash(a)) /\ UNCHANGED <<pay, poll, hook, ver>>
    \/ (\E ans \in SubmitResponses : SubmitResume(ans))
          /\ UNCHANGED <<pay, poll, hook, ver>>
    \/ SubmitReturn /\ UNCHANGED <<pay, poll, hook, ver>>

SubmitSpec == SubmitInit /\ [][SubmitNext]_vars

-----------------------------------------------------------------------------
(* Properties of the mandate lifecycle *)

\* an answer to POST /mandates/issue that carries a mandate
CarriesMandate(ans) == ans.status = 200 /\ ans.data.t = "object"

\* the answers on which client.mandates.verify, or the reading of its result,
\* raises
VerifyFails(ans) ==
    \/ ans.status # 200
    \/ ans.data.t = "undefined"
    \/ ~ans.data.valid /\ ans.data.error
    \/ ans.data.valid /\ ans.data.payload.t = "undefined"

KnownBad == {"exhausted", "invalid"}

\* C1: no call returns a token for which the instance has already received a
\* verification result reporting it invalid or with budget_remaining <= 0.01
\* (here: a result that an invocation still in progress has received).
C1_NoKnownBadToken ==
    (last.at # "none" /\ last.err = NoError)
    => ~\E q \in Calls : /\ calls[q].reported \in KnownBad
                         /\ calls[q].tok = last.ret

\* C2: a call that directly follows a call that issued and returned a token,
\* made before the local expiry and answered by a verification reporting that
\* token valid with budget_remaining > 0.01, verifies that token, returns it,
\* issues nothing and leaves the cached token and expiry as they were.
C2_Idempotent ==
    /\ \A p \in Calls :
          (Active(calls[p]) /\ calls[p].prev # 0)
          => /\ calls[p].reported # "sufficient"
             /\ calls[p].tok = 0 => now >= mandateExpiresAt
             /\ calls[p].tok # 0 => calls[p].tok = calls[p].prev
    /\ (last.prev # 0 /\ last.reported = "sufficient")
       => /\ last.at = "verify"
          /\ last.err = NoError
          /\ last.ret = last.prev
          /\ last.issued = 0
          /\ cachedMandateToken = last.cacheWas
          /\ mandateExpiresAt = last.expiresWas

C2_Witness ==
    /\ last.at = "verify"
    /\ last.prev # 0
    /\ last.reported = "sufficient"
    /\ last.ret = last.prev

C4_VerifyErrorsSwallowed ==
    last.at = "verify" => (last.err = NoError /\ ~VerifyFails(last.ans))

C4_Witness ==
    \E p \in Calls :
       /\ calls[p].pc = "issueReq"
       /\ calls[p].tok # 0
       /\ calls[p].reported = "failed"

\* the RateLimitError a 429 answer is to be raised as: the values of its
\* headers, or 60, 0 and 0 where a header is absent
RateLimitOf(ans) ==
    LET value(h, d) == IF "headers" \in DOMAIN ans /\ ans.headers[h].t = "decimal"
                       THEN ans.headers[h].v ELSE d
    IN  [name |-> "RateLimitError", code |-> "RATE_LIMIT_EXCEEDED",
         reason |-> "none", retryAfter |-> value("retryAfter", 60),
         limit |-> value("limit", 0), remaining |-> value("remaining", 0)]

\* the error issuance raises on an answer that carries no mandate, read off
\* the answer itself
RaisedOn(ans) ==
    IF ans = NoAnswer THEN MandateError("INVALID_TTL")
    ELSE IF ans.status = 0 THEN Err("AgentPayError", "NETWORK_ERROR")
    ELSE IF ans.status = 429 THEN RateLimitOf(ans)
    ELSE IF ans.status = 401 THEN Err("AuthenticationError", "AUTHENTICATION_FAILED")
    ELSE IF ans.status = 200 THEN MandateError("ISSUE_FAILED")
    ELSE Err("AgentPayError", "API_ERROR")

C6_InvalidatedOnBadOutcome ==
    (last.reported \in KnownBad /\ last.err # NoError)
    => cachedMandateToken # last.tok

\* C6, amended: a bad verification outcome does not clear the cache. A call
\* that ends without a mandate from the gateway leaves the cached token and
\* expiry as it found them; after a bad outcome and a failed issuance the
\* cache still holds the token the call verified, unless an overlapping call
\* has cached its own mandate meanwhile, so a later call made before the
\* local expiry verifies that token again.
C6_CacheKeptUntilReplaced ==
    /\ (last.at # "none" /\ ~(last.at = "issue" /\ CarriesMandate(last.ans)))
       => /\ cachedMandateToken = last.cacheWas
          /\ mandateExpiresAt = last.expiresWas
    /\ last.tok # 0 => cachedMandateToken # 0
    /\ \A p \in Calls :
          (calls[p].reported \in KnownBad /\ calls[p].prev # 0)
          => cachedMandateToken = calls[p].tok

C6_Witness ==
    /\ last.at = "issue"
    /\ last.reported \in KnownBad
    /\ last.err # NoError
    /\ cachedMandateToken = last.tok

\* C7: an issuance that yields a mandate makes its call return the token of
\* that mandate and leaves the cache holding that token and its expiry,
\* whatever an overlapping call has cached before: the issuance processed
\* last wins.
C7_LastWriteWins ==
    (last.at = "issue" /\ CarriesMandate(last.ans))
    => /\ last.err = NoError
       /\ last.ret = last.ans.data.mandateToken
       /\ last.issued = last.ans.data.mandateToken
       /\ cachedMandateToken = last.ans.data.mandateToken
       /\ mandateExpiresAt = last.ans.data.expiresAt * MsPerSecond

\* two overlapping calls have both issued: the call that ends here found in
\* the cache a mandate the gateway issued after its own
C7_Witness ==
    /\ last.issued # 0
    /\ last.cacheWas > last.issued
    /\ cachedMandateToken = last.issued

-----------------------------------------------------------------------------
(* Properties of submitTxHash *)

\* the error text handleError looks at: data.error, else the message of the
\* HTTP library
ErrorText(ans) == IF ans.message # <<>> THEN ans.message ELSE AxiosMessage

MentionsTransaction(ans) ==
    \E i \in DOMAIN ErrorText(ans) : ErrorText(ans)[i] = "transaction"

FailedResult(reason) ==
    /\ sub.err = NoError
    /\ sub.result.t = "object"
    /\ sub.result.success = FALSE
    /\ sub.result.status = "failed"
    /\ sub.result.error = reason

\* C8, as stated: whenever the gateway rejects the submitted transaction as
\* invalid, whatever the wording of its error message, submitTxHash returns
\* {success: false, status: 'failed', error: <the gateway's reason>}.
C8_RejectionReturned ==
    (sub.pc = "done" /\ sub.ans \in SubmitRejections /\ sub.ans.reason # "")
    => FailedResult(sub.ans.reason)

\* C8, amended: a rejection with HTTP 400 whose error text contains
\* 'transaction' is returned as {success: false, status: 'failed', error:
\* <the gateway's reason, or 'Unknown reason' when it gives none>}; a 400
\* whose error text does not contain it is raised as AgentPayError API_ERROR.
C8_TransactionRejectionReturned ==
    (sub.pc = "done" /\ sub.ans.status = 400)
    => IF MentionsTransaction(sub.ans)
       THEN FailedResult(IF sub.ans.reason # "" THEN sub.ans.reason
                         ELSE "Unknown reason")
       ELSE /\ sub.err = Err("AgentPayError", "API_ERROR")
            /\ sub.result = NoResult

C8_Witness ==
    /\ sub.pc = "done"
    /\ sub.ans = Rejection(<<"Invalid", "transaction", "amount">>, "amount_mismatch")
    /\ FailedResult("amount_mismatch")

\* C9: when the request fails at transport level (no response, 401, an empty
\* response body), submitTxHash raises and returns no result.
C9_TransportFailureRaises ==
    (sub.pc = "done" /\ sub.ans \in {NoResponse, Unauthorized, EmptyBody})
    => (sub.err # NoError /\ sub.result = NoResult)

\* the preconditions of submitTxHash, on the pools the arguments come from
WellFormedArgs(a) ==
    /\ a.mandate = MandateTokenText(1)
    /\ a.txHash = GoodTxHash
    /\ a.txHashCommission \in {Undefined, MixedCaseTxHash}
    /\ a.chain \in {Undefined, Str("polygon")}
    /\ a.token \in {Undefined, Str("DAI")}
    /\ a.priceUsd.t = "undefined" \/ (a.priceUsd.t = "number" /\ a.priceUsd.v > 0)

\* C10: when a precondition is violated, submitTxHash sends no request and
\* fails with ValidationError.
C10_InvalidInputRejected ==
    (sub.pc \in {"sent", "done"} /\ ~WellFormedArgs(sub.args))
    => /\ sub.request = NoRequest
       /\ sub.err = ValidationError

-----------------------------------------------------------------------------
(* modules/payments.ts: PaymentsModule.payWithWallet *)

AddressHexDigits == 40
DaiDecimals == 18
StableDecimals == 6

validateEthereumAddress(address) ==
    LET \* /^0x[a-fA-F0-9]{40}$/.test(address)
        AddressRegexTest(s) ==
            /\ Len(s) = 2 + AddressHexDigits
            /\ s[1] = "0"
            /\ s[2] = "x"
            /\ \A i \in 3..Len(s) : s[i] \in HexChars
    IN  IF Falsy(address) \/ ~AddressRegexTest(address.s)
        THEN ValidationError ELSE NoError

\* the characters of a chain or token name, for the checks that read an
\* argument character by character
Characters(name) ==
    CASE name = "base" -> <<"b", "a", "s", "e">>
      [] name = "ethereum" -> <<"e", "t", "h", "e", "r", "e", "u", "m">>
      [] name = "polygon" -> <<"p", "o", "l", "y", "g", "o", "n">>
      [] name = "arbitrum" -> <<"a", "r", "b", "i", "t", "r", "u", "m">>
      [] name = "USDC" -> <<"U", "S", "D", "C">>
      [] name = "USDT" -> <<"U", "S", "D", "T">>
      [] name = "DAI" -> <<"D", "A", "I">>

\* a plain Error with its message
PlainError(message) == ErrReason("Error", "none", message)

\* new Error(`Failed to send transaction: ${error.message}`)
FailedToSend(cause) ==
    [name |-> "Error", code |-> "none", reason |-> "Failed to send transaction",
     cause |-> cause.name]

\* the arguments payWithWallet is called with: the wallet is an
\* ethers.Wallet, an object without sendTransaction, or missing
PayArgs ==
    [mandate : {MandateTokenText(1), Str(<<"a", ".", "b", ".", "c">>)},
     wallet : {[t |-> "object", sendTransaction |-> TRUE],
               [t |-> "object", sendTransaction |-> FALSE], Undefined},
     recipientAddress : {Str(<<"0", "x">> \o Repeat("b", AddressHexDigits)),
                         Str(<<"0", "x", "7", "4", "2", "d", "3", "5">>)},
     amountUsd : {Num(10), Num(0)},
     chain : {Undefined, Str("polygon"), Str("solana")},
     token : {Undefined, Str("USDT"), Str("DAI")}]

\* the checks of payWithWallet, in their order
payValidation(mandate, wallet, recipientAddress, amountUsd, chain, token) ==
    FirstError(<<validateRequired(mandate),
                 validateRequired(wallet),
                 validateRequired(recipientAddress),
                 validateMandateToken(mandate),
                 validateEthereumAddress(recipientAddress),
                 validateAmount(amountUsd),
                 validateChain(chain),
                 validateToken(token)>>)

\* contractAddresses[chain][token] is a deployed contract: every pair but
\* USDT on Base, whose entry is the zero address
TokenDeployed(chain, token) == ~(chain = "base" /\ token = "USDT")

\* contract.transfer(recipientAddress, amountAtomic) on the token contract
transferRequest(chain, token, recipientAddress, amountUsd) ==
    [t |-> "object", contract |-> <<chain, token>>, to |-> recipientAddress,
     amountUsd |-> amountUsd,
     decimals |-> IF token = "DAI" THEN DaiDecimals ELSE StableDecimals]

\* the call "this.submitTxHash(mandate, tx.hash, chain, token)": its four
\* arguments bind to the first four parameters of submitTxHash
submitCallOfPay(mandate, txHash, chain, token) ==
    [mandate |-> mandate,
     txHash |-> txHash,
     txHashCommission |-> Str(Characters(chain.s)),
     chain |-> token,
     token |-> Undefined,
     priceUsd |-> Undefined]

\* the call the README shows: submitTxHash(mandateToken, txHash, 'base', 'USDC')
ReadmeSubmitCall ==
    [mandate |-> MandateTokenText(1),
     txHash |-> GoodTxHash,
     txHashCommission |-> Str(Characters("base")),
     chain |-> Str("USDC"),
     token |-> Undefined,
     priceUsd |-> Undefined]

\* calls of submitTxHash by the application itself
DirectSubmitArgs ==
    {ReadmeSubmitCall,
     [ReadmeSubmitCall EXCEPT !.txHashCommission = Undefined, !.chain = Str("base"),
                              !.token = Str("USDC")],
     [ReadmeSubmitCall EXCEPT !.txHashCommission = Undefined, !.chain = Undefined]}

\* the payWithWallet invocation: the transfer it asked the wallet for, the
\* hash of the transaction sent (txHash), whether tx.wait() has resolved
\* (mined), the request its submitTxHash call sent to the gateway (request)
ReadyPay ==
    [pc |-> "ready", args |-> NoData, transfer |-> NoRequest, txHash |-> Undefined,
     mined |-> FALSE, request |-> NoRequest, result |-> NoResult, err |-> NoError]

\* payWithWallet up to the await of contract.transfer
PayWithWallet(a) ==
    /\ pay.pc = "ready"
    /\ sub.pc = "ready"
    /\ LET chain == DefaultTo(a.chain, Str("base"))
           token == DefaultTo(a.token, Str("USDC"))
           thrown == payValidation(a.mandate, a.wallet, a.recipientAddress,
                                   a.amountUsd, chain, token)
           called == [ReadyPay EXCEPT !.args = a]
       IN  IF thrown # NoError
           THEN pay' = [called EXCEPT !.pc = "done", !.err = thrown]
           ELSE IF ~a.wallet.sendTransaction
           THEN pay' = [called EXCEPT !.pc = "done",
                                      !.err = PlainError("Invalid wallet object")]
           ELSE IF ~TokenDeployed(chain.s, token.s)
           THEN pay' = [called EXCEPT
                          !.pc = "done",
                          !.err = FailedToSend(PlainError("not available"))]
           ELSE pay' = [called EXCEPT
                          !.pc = "transfer",
                          !.transfer = transferRequest(chain.s, token.s,
                                                       a.recipientAddress,
                                                       a.amountUsd)]
    /\ UNCHANGED mandateVars
    /\ UNCHANGED <<sub, poll, hook, ver>>

Rejected == [t |-> "rejected"]

\* payWithWallet from the settling of contract.transfer, with a transaction
\* and its hash or with a rejection (insufficient funds, user denied, provider
\* down), to the await of tx.wait()
TransferResume(tx) ==
    /\ pay.pc = "transfer"
    /\ pay' = IF tx = Rejected
              THEN [pay EXCEPT !.pc = "done",
                               !.err = FailedToSend(PlainError("rejected"))]
              ELSE [pay EXCEPT !.pc = "wait", !.txHash = tx]
    /\ UNCHANGED mandateVars
    /\ UNCHANGED <<sub, poll, hook, ver>>

\* tx.wait() rejects: the transaction was reverted or dropped
WaitRejects ==
    /\ pay.pc = "wait"
    /\ pay' = [pay EXCEPT !.pc = "done",
                          !.err = FailedToSend(PlainError("reverted"))]
    /\ UNCHANGED mandateVars
    /\ UNCHANGED <<sub, poll, hook, ver>>

\* tx.wait() resolves: the transfer is mined, and payWithWallet calls
\* submitTxHash; what that call throws before its request is caught and
\* rethrown by payWithWallet
WaitResume ==
    /\ pay.pc = "wait"
    /\ LET chain == DefaultTo(pay.args.chain, Str("base"))
           token == DefaultTo(pay.args.token, Str("USDC"))
       IN  SubmitTxHash(submitCallOfPay(pay.args.mandate, pay.txHash, chain, token))
    /\ pay' = IF sub'.pc = "done"
              THEN [pay EXCEPT !.pc = "done", !.mined = TRUE,
                               !.err = FailedToSend(sub'.err)]
              ELSE [pay EXCEPT !.pc = "submitted", !.mined = TRUE,
                               !.request = sub'.request]
    /\ UNCHANGED <<poll, hook, ver>>

\* submitTxHash settles and hands its outcome to its caller: the application,
\* or payWithWallet, which returns the result or rethrows the error
SubmitResumeToCaller(ans) ==
    /\ SubmitResume(ans)
    /\ pay' = IF pay.pc = "submitted"
              THEN [pay EXCEPT !.pc = "done", !.result = sub'.result,
                               !.err = IF sub'.err # NoError
                                       THEN FailedToSend(sub'.err) ELSE NoError]
              ELSE pay
    /\ UNCHANGED <<poll, hook, ver>>

PaymentsInit ==
    /\ config \in Configs
    /\ cachedMandateToken = 0
    /\ mandateExpiresAt = 0
    /\ now = 0
    /\ gwIssued = 0
    /\ gwBudget = [t \in Tokens |-> 0]
    /\ gwExp = [t \in Tokens |-> 0]
    /\ overlaps = 0
    /\ calls = [p \in Calls |-> IdleCall]
    /\ last = NoneEnded
    /\ sub = ReadySubmit
    /\ pay = ReadyPay
    /\ poll = Unused
    /\ hook = Unused
    /\ ver = Unused

\* the application calls payWithWallet, or submitTxHash itself
PaymentsNext ==
    \/ \E a \in PayArgs : PayWithWallet(a)
    \/ \E tx \in {GoodTxHash, MixedCaseTxHash, Rejected} : TransferResume(tx)
    \/ WaitRejects
    \/ WaitResume
    \/ \E a \in DirectSubmitArgs :
          pay.pc = "ready" /\ SubmitTxHash(a) /\ UNCHANGED <<pay, poll, hook, ver>>
    \/ \E ans \in SubmitResponses : SubmitResumeToCaller(ans)
    \/ pay.pc = "ready" /\ SubmitReturn /\ UNCHANGED <<pay, poll, hook, ver>>

PaymentsSpec == PaymentsInit /\ [][PaymentsNext]_vars

-----------------------------------------------------------------------------
(* Properties of payWithWallet and of the documented submitTxHash call *)

\* C11: once the token transfer is sent and mined, payWithWallet submits the
\* hash of that transfer to the gateway with the given chain and token and no
\* commission hash, and when the gateway accepts the payment it returns the
\* result, whose txHash is that hash, without an error.
C11_SubmitsMinedTransfer ==
    pay.mined
    => /\ pay.request.t = "object"
       /\ pay.request.xPayment.tx_hash = pay.txHash
       /\ pay.request.xPayment.tx_hash_commission = Undefined
       /\ pay.request.chain = DefaultTo(pay.args.chain, Str("base"))
       /\ pay.request.token = DefaultTo(pay.args.token, Str("USDC"))
       /\ (pay.pc = "done" /\ IsSuccessStatus(sub.ans.status))
          => /\ pay.err = NoError
             /\ pay.result.t = "object"
             /\ pay.result.txHash = pay.txHash

\* C12: submitTxHash(mandateToken, txHash, 'base', 'USDC'), the call the
\* README documents, submits the payment for chain base and token USDC and
\* returns a payment result.
C12_ReadmeCallSubmits ==
    (sub.pc \in {"sent", "done"} /\ sub.args = ReadmeSubmitCall)
    => /\ sub.request.t = "object"
       /\ sub.request.chain = Str("base")
       /\ sub.request.token = Str("USDC")
       /\ sub.pc = "done" => (sub.err = NoError /\ sub.result.t = "object")

-----------------------------------------------------------------------------
(* modules/payments.ts: PaymentsModule.verify and waitForConfirmation *)

MaxAttempts == 3

NotFoundStatus == 404

\* error.statusCode of the error e raised on the answer ans (0: undefined)
statusCode(e, ans) ==
    IF e.name = "RateLimitError" THEN 429
    ELSE IF e.name = "AuthenticationError" THEN 401
    ELSE IF e.name \in {"InvalidTransactionError", "MandateError"} THEN 400
    ELSE IF e.name = "AgentPayError" /\ e.code = "API_ERROR" THEN ans.status
    ELSE 0

\* a PaymentVerification body: its status and its error ("" when absent)
VerificationData(status, error) ==
    [t |-> "object", status |-> status, error |-> error]

NotFound == Answer(NotFoundStatus, <<"Payment", "not", "found">>, "", NoData)

\* what can come back for GET /v1/payments/verify/{txHash}
PollResponses ==
    {Answer(200, <<>>, "", VerificationData("completed", "")),
     Answer(200, <<>>, "", VerificationData("pending", "")),
     Answer(200, <<>>, "", VerificationData("failed", "amount too low")),
     Answer(200, <<>>, "", VerificationData("failed", "")),
     NotFound, BadRequest, EmptyBody}
    \cup TransportFailures

\* PaymentsModule.verify after its request
paymentVerifyOutcome(ans) ==
    IF ~IsSuccessStatus(ans.status)
    THEN [err |-> handleError(ans), data |-> NoData]
    ELSE IF ans.data.t = "undefined"
    THEN [err |-> PlainError("Failed to verify payment"), data |-> NoData]
    ELSE [err |-> NoError, data |-> ans.data]

\* a test that takes a pending payment for a completed one
IsCompleted_OrPending(status) == status \in {"completed", "pending"}

\* verification.status === 'completed'
IsCompleted(status) == status = "completed"

\* a test that never sees a failed payment
IsFailed_Never(status) == FALSE

\* verification.status === 'failed'
IsFailed(status) == status = "failed"

\* a catch clause that rethrows every error
PollCaught_Never(e, ans) == FALSE

\* a catch clause that keeps polling on every HTTP error status
PollCaught_AnyHttpError(e, ans) == statusCode(e, ans) >= 400

\* the catch clause of the loop keeps polling on: error.statusCode === 404
PollCaught(e, ans) == statusCode(e, ans) = NotFoundStatus

\* a loop that runs once more than maxAttempts
MoreAttempts_Inclusive(i, maxAttempts) == i <= maxAttempts

\* the loop condition i < maxAttempts
MoreAttempts(i, maxAttempts) == i < maxAttempts

\* new Error(`Transaction ${txHash} not confirmed after ${maxAttempts} attempts`)
TimeoutError(txHash, maxAttempts) ==
    [name |-> "Error", code |-> "none", reason |-> "not confirmed",
     txHash |-> txHash, attempts |-> maxAttempts]

\* the arguments waitForConfirmation is called with
PollArgs ==
    [txHash : {GoodTxHash, ShortTxHash, EmptyString},
     maxAttempts : 0..MaxAttempts]

\* the waitForConfirmation invocation: its loop counter (i), the answers its
\* polls have received so far (answers), the number of polls it has sent
\* (sent) and the number of times it has slept intervalMs (sleeps)
ReadyPoll ==
    [pc |-> "ready", args |-> NoData, i |-> 0, answers |-> <<>>, sent |-> 0,
     sleeps |-> 0, result |-> NoResult, err |-> NoError]

\* a loop head that, out of attempts, waits on instead of throwing
NextAttempt_NeverGivesUp(c, i) ==
    IF MoreAttempts(i, c.args.maxAttempts)
    THEN LET thrown == FirstError(<<validateRequired(c.args.txHash),
                                    validateTxHash(c.args.txHash)>>)
         IN  IF thrown # NoError
             THEN [c EXCEPT !.pc = "done", !.i = i, !.err = thrown]
             ELSE [c EXCEPT !.pc = "polling", !.i = i, !.sent = @ + 1]
    ELSE [c EXCEPT !.pc = "waiting", !.i = i]

\* the head of the loop with counter i: the next poll is sent, or the loop
\* is left and the timeout error thrown
NextAttempt(c, i) ==
    IF MoreAttempts(i, c.args.maxAttempts)
    THEN LET \* PaymentsModule.verify before its request
             thrown == FirstError(<<validateRequired(c.args.txHash),
                                    validateTxHash(c.args.txHash)>>)
         IN  IF thrown # NoError
             THEN [c EXCEPT !.pc = "done", !.i = i, !.err = thrown]
             ELSE [c EXCEPT !.pc = "polling", !.i = i, !.sent = @ + 1]
    ELSE [c EXCEPT !.pc = "done", !.i = i,
                   !.err = TimeoutError(c.args.txHash, c.args.maxAttempts)]

\* waitForConfirmation up to its first await
WaitForConfirmation(a) ==
    /\ poll.pc = "ready"
    /\ LET thrown == FirstError(<<validateRequired(a.txHash),
                                  validateTxHash(a.txHash)>>)
           called == [ReadyPoll EXCEPT !.args = a]
       IN  poll' = IF thrown # NoError
                   THEN [called EXCEPT !.pc = "done", !.err = thrown]
                   ELSE NextAttempt(called, 0)
    /\ UNCHANGED mandateVars
    /\ UNCHANGED <<sub, pay, hook, ver>>

\* one pass of the loop body from the answer to this.verify: return, throw,
\* sleep, or (error caught) the next pass at once
PollResume(ans) ==
    /\ poll.pc = "polling"
    /\ LET out == paymentVerifyOutcome(ans)
           c == [poll EXCEPT !.answers = Append(@, ans)]
           thrown == IF out.err # NoError THEN out.err
                     ELSE IF IsCompleted(out.data.status) THEN NoError
                     ELSE IF IsFailed(out.data.status)
                     THEN InvalidTransactionError(
                            IF out.data.error # "" THEN out.data.error
                            ELSE "Unknown error")
                     ELSE NoError
       IN  poll' = IF thrown # NoError
                   THEN IF PollCaught(thrown, ans)
                        THEN NextAttempt(c, c.i + 1)
                        ELSE [c EXCEPT !.pc = "done", !.err = thrown]
                   ELSE IF IsCompleted(out.data.status)
                   THEN [c EXCEPT !.pc = "done", !.result = out.data]
                   ELSE [c EXCEPT !.pc = "sleeping"]
    /\ UNCHANGED mandateVars
    /\ UNCHANGED <<sub, pay, hook, ver>>

\* the timer of setTimeout(resolve, intervalMs) fires: the next pass
SleepResume ==
    /\ poll.pc = "sleeping"
    /\ poll' = NextAttempt([poll EXCEPT !.sleeps = @ + 1], poll.i + 1)
    /\ UNCHANGED mandateVars
    /\ UNCHANGED <<sub, pay, hook, ver>>

PollInit ==
    /\ config \in Configs
    /\ cachedMandateToken = 0
    /\ mandateExpiresAt = 0
    /\ now = 0
    /\ gwIssued = 0
    /\ gwBudget = [t \in Tokens |-> 0]
    /\ gwExp = [t \in Tokens |-> 0]
    /\ overlaps = 0
    /\ calls = [p \in Calls |-> IdleCall]
    /\ last = NoneEnded
    /\ sub = NoSubmit
    /\ pay = Unused
    /\ poll = ReadyPoll
    /\ hook = Unused
    /\ ver = Unused

PollNext ==
    \/ \E a \in PollArgs : WaitForConfirmation(a)
    \/ \E ans \in PollResponses : PollResume(ans)
    \/ SleepResume

PollSpec == PollInit /\ [][PollNext]_vars

\* waitForConfirmation where every poll request is answered and every timer
\* fires
PollFairSpec ==
    /\ PollSpec
    /\ WF_vars(\E ans \in PollResponses : PollResume(ans))
    /\ WF_vars(SleepResume)

-----------------------------------------------------------------------------
(* Properties of waitForConfirmation *)

\* what an answer to a poll says, read off the answer itself
StatusOf(ans) ==
    IF ans.status = 200 /\ ans.data.t = "object" THEN ans.data.status
    ELSE IF ans.status = 404 THEN "notfound"
    ELSE "error"

Polled == Len(poll.answers)

\* the error a poll raises on an answer that is neither a body nor not-found
RaisedOnPoll(ans) ==
    IF ans.status = 0 THEN Err("AgentPayError", "NETWORK_ERROR")
    ELSE IF ans.status = 429 THEN RateLimitOf(ans)
    ELSE IF ans.status = 401 THEN Err("AuthenticationError", "AUTHENTICATION_FAILED")
    ELSE IF ans.status = 200 THEN ErrReason("Error", "none", "Failed to verify payment")
    ELSE Err("AgentPayError", "API_ERROR")

\* C13: waitForConfirmation returns the verification record of the first poll
\* whose status is completed and sends no poll after it.
C13_ReturnsFirstCompleted ==
    /\ \A k \in 1..Polled :
          StatusOf(poll.answers[k]) = "completed"
          => /\ k = Polled
             /\ poll.pc = "done"
             /\ poll.err = NoError
             /\ poll.result = poll.answers[k].data
             /\ poll.sent = k
    /\ (poll.pc = "done" /\ poll.result # NoResult)
       => /\ Polled >= 1
          /\ StatusOf(poll.answers[Polled]) = "completed"

C13_Witness ==
    /\ poll.pc = "done"
    /\ Polled = 3
    /\ StatusOf(poll.answers[1]) = "pending"
    /\ StatusOf(poll.answers[2]) = "notfound"
    /\ poll.result = VerificationData("completed", "")

\* C14: at the first poll whose status is failed, waitForConfirmation raises
\* InvalidTransactionError carrying the gateway's reason and sends no further
\* poll: failed on the k-th poll raises after exactly k polls.
C14_RaisesAtFirstFailed ==
    \A k \in 1..Polled :
       StatusOf(poll.answers[k]) = "failed"
       => /\ k = Polled
          /\ poll.pc = "done"
          /\ poll.result = NoResult
          /\ poll.err.name = "InvalidTransactionError"
          /\ poll.err.reason = IF poll.answers[k].data.error # ""
                               THEN poll.answers[k].data.error
                               ELSE "Unknown error"
          /\ poll.sent = k

C14_Witness ==
    /\ poll.pc = "done"
    /\ Polled = 3
    /\ poll.sent = 3
    /\ StatusOf(poll.answers[3]) = "failed"
    /\ poll.err.name = "InvalidTransactionError"
    /\ poll.err.reason = "amount too low"

\* C15: a not-found answer (HTTP 404) never makes waitForConfirmation raise
\* it: the attempt is used up, and the call polls again, or, with no attempt
\* left, raises the timeout error.
C15_NotFoundIsTransient ==
    (Polled >= 1 /\ StatusOf(poll.answers[Polled]) = "notfound")
    => \/ /\ poll.pc = "polling"
          /\ poll.i = Polled
          /\ poll.sent = Polled + 1
          /\ Polled < poll.args.maxAttempts
       \/ /\ poll.pc = "done"
          /\ Polled = poll.args.maxAttempts
          /\ poll.err = TimeoutError(poll.args.txHash, poll.args.maxAttempts)

C15_Witness ==
    /\ poll.pc = "polling"
    /\ Polled = 2
    /\ StatusOf(poll.answers[1]) = "notfound"
    /\ StatusOf(poll.answers[2]) = "notfound"
    /\ poll.sent = 3

\* C16: any poll error other than not-found (no response, 401, 429, 400, 5xx,
\* empty body) makes waitForConfirmation fail at once with that error; no
\* poll is sent after it.
C16_OtherErrorsFatal ==
    \A k \in 1..Polled :
       StatusOf(poll.answers[k]) = "error"
       => /\ k = Polled
          /\ poll.pc = "done"
          /\ poll.result = NoResult
          /\ poll.err = RaisedOnPoll(poll.answers[k])
          /\ poll.sent = k

C16_Witness ==
    /\ poll.pc = "done"
    /\ Polled = 2
    /\ StatusOf(poll.answers[1]) = "notfound"
    /\ poll.answers[2] = ServerError
    /\ poll.err = Err("AgentPayError", "API_ERROR")

\* C17: never more than maxAttempts polls are sent; when every poll is
\* answered pending or not-found, exactly maxAttempts polls are sent and the
\* call raises the timeout error naming the hash and the attempt count.
C17_BoundedPolling ==
    /\ poll.pc # "ready" => poll.sent <= poll.args.maxAttempts
    /\ (/\ poll.pc = "done"
        /\ poll.args.txHash = GoodTxHash
        /\ \A k \in 1..Polled :
              StatusOf(poll.answers[k]) \in {"pending", "notfound"})
       => /\ poll.sent = poll.args.maxAttempts
          /\ Polled = poll.args.maxAttempts
          /\ poll.err = TimeoutError(poll.args.txHash, poll.args.maxAttempts)
    /\ (poll.pc = "done" /\ poll.err.reason = "not confirmed")
       => Polled = poll.args.maxAttempts

C17_Witness ==
    /\ poll.pc = "done"
    /\ poll.args.maxAttempts = 3
    /\ Polled = 3
    /\ StatusOf(poll.answers[3]) = "pending"
    /\ poll.err = TimeoutError(GoodTxHash, 3)

-----------------------------------------------------------------------------
(* modules/webhooks.ts: WebhooksModule.verifySignature and verifyAndParse *)

Sha256HexDigits == 64

\* the bytes of s absorbed one by one into the running value acc; a byte is
\* the place of its character among those payloads and secrets are written in
RECURSIVE Absorb(_, _)
Absorb(s, acc) ==
    LET Alphabet == <<"{", "}", "\"", ":", ",", "e", "v", "1", "2", "w", "h",
                      "s", "c", "k">>
        CharCode(ch) == CHOOSE i \in DOMAIN Alphabet : Alphabet[i] = ch
    IN  IF s = <<>> THEN acc
        ELSE Absorb(Tail(s), (acc * 31 + CharCode(Head(s))) % 65521)

\* createHmac('sha256', secret).update(payload).digest('hex'): a keyed digest
\* of the payload's bytes, 64 lower-case hex digits; digit by digit a
\* function of the secret and of every byte of the payload, which tells
\* apart the payloads and secrets of the model as SHA-256 is taken to
createHmac(secret, payload) ==
    LET LowerHex == <<"0", "1", "2", "3", "4", "5", "6", "7", "8", "9",
                      "a", "b", "c", "d", "e", "f">>
    IN  [i \in 1..Sha256HexDigits |->
            LowerHex[(Absorb(payload, Absorb(secret, i)) % 16) + 1]]

\* a comparison that ignores the case of the hex digits
SignatureMatches_IgnoreCase(signature, expectedSignature) ==
    LET lower(ch) == CASE ch = "A" -> "a" [] ch = "B" -> "b" [] ch = "C" -> "c"
                       [] ch = "D" -> "d" [] ch = "E" -> "e" [] ch = "F" -> "f"
                       [] OTHER -> ch
    IN  [i \in DOMAIN signature |-> lower(signature[i])] = expectedSignature

\* signature === expectedSignature
SignatureMatches(signature, expectedSignature) == signature = expectedSignature

\* WebhooksModule.verifySignature: what it throws, or the boolean it returns
verifySignature(payload, signature, secret) ==
    LET thrown == FirstError(<<validateRequired(payload),
                               validateRequired(signature),
                               validateRequired(secret)>>)
    IN  IF thrown # NoError
        THEN [err |-> thrown, result |-> FALSE]
        ELSE [err |-> NoError,
              result |-> SignatureMatches(signature.s,
                                          createHmac(secret.s, payload.s))]

\* JSON.parse on the raw payloads of the model: the texts {"k":d} and d, with
\* k a letter and d a digit, are well-formed; every other text of the pools
\* is a SyntaxError
JsonParse(text) ==
    LET Digits == {"1", "2"}
    IN
    IF Len(text) = 1 /\ text[1] \in Digits
    THEN [ok |-> TRUE, value |-> [t |-> "number", digit |-> text[1]]]
    ELSE IF /\ Len(text) = 7
            /\ text[1] = "{" /\ text[2] = "\"" /\ text[3] \in {"e", "v"}
            /\ text[4] = "\"" /\ text[5] = ":" /\ text[6] \in Digits
            /\ text[7] = "}"
    THEN [ok |-> TRUE,
          value |-> [t |-> "object", key |-> text[3], digit |-> text[6]]]
    ELSE [ok |-> FALSE, value |-> NoData]

InvalidSignature == PlainError("Invalid webhook signature")
InvalidJson == PlainError("Invalid webhook payload JSON")

\* a verifyAndParse that parses the payload first and verifies afterwards
verifyAndParseOutcome_ParsesFirst(payload, signature, secret) ==
    LET json == IF payload.t = "string" THEN JsonParse(payload.s)
                ELSE [ok |-> FALSE, value |-> NoData]
        check == verifySignature(payload, signature, secret)
    IN  IF ~json.ok
        THEN [err |-> InvalidJson, value |-> NoData, parsed |-> TRUE]
        ELSE IF check.err # NoError
        THEN [err |-> check.err, value |-> NoData, parsed |-> TRUE]
        ELSE IF ~check.result
        THEN [err |-> InvalidSignature, value |-> NoData, parsed |-> TRUE]
        ELSE [err |-> NoError, value |-> json.value, parsed |-> TRUE]

\* WebhooksModule.verifyAndParse: what it throws or the payload it returns,
\* and whether it has called JSON.parse on the payload (parsed)
verifyAndParseOutcome(payload, signature, secret) ==
    LET check == verifySignature(payload, signature, secret)
    IN  IF check.err # NoError
        THEN [err |-> check.err, value |-> NoData, parsed |-> FALSE]
        ELSE IF ~check.result
        THEN [err |-> InvalidSignature, value |-> NoData, parsed |-> FALSE]
        ELSE LET json == JsonParse(payload.s)
             IN  IF json.ok
                 THEN [err |-> NoError, value |-> json.value, parsed |-> TRUE]
                 ELSE [err |-> InvalidJson, value |-> NoData, parsed |-> TRUE]

\* raw request bodies: a notification, the same with another value, a
\* truncated one
SentPayload == Str(<<"{", "\"", "e", "\"", ":", "1", "}">>)
ChangedPayload == Str(<<"{", "\"", "e", "\"", ":", "2", "}">>)
TruncatedPayload == Str(<<"{", "\"", "e", "\"", ":", "1">>)

WebhookSecret == Str(<<"w", "h", "s", "e", "c">>)
OtherSecret == Str(<<"w", "h", "s", "e", "k">>)

Payloads == {SentPayload, ChangedPayload, TruncatedPayload}
Secrets == {WebhookSecret, OtherSecret}

\* the arguments of a call; the x-agentpay-signature header is the digest
\* of some payload under some secret, such a digest in upper case, empty, or
\* missing
HookArgs ==
    LET UpperCase(s) ==
            [i \in DOMAIN s |->
                CASE s[i] = "a" -> "A" [] s[i] = "b" -> "B" [] s[i] = "c" -> "C"
                  [] s[i] = "d" -> "D" [] s[i] = "e" -> "E" [] s[i] = "f" -> "F"
                  [] OTHER -> s[i]]
    IN  [payload : Payloads \cup {EmptyString},
         signature :
            {Str(createHmac(k.s, body.s)) : k \in Secrets, body \in Payloads}
            \cup {Str(UpperCase(createHmac(WebhookSecret.s, SentPayload.s))),
                  EmptyString, Undefined},
         secret : Secrets \cup {EmptyString}]

ReadyHook ==
    [pc |-> "ready", op |-> "none", args |-> NoData, result |-> FALSE,
     value |-> NoData, parsed |-> FALSE, err |-> NoError]

\* the handler calls verifySignature
CallVerifySignature(a) ==
    /\ hook.pc = "ready"
    /\ LET out == verifySignature(a.payload, a.signature, a.secret)
       IN  hook' = [ReadyHook EXCEPT !.pc = "done", !.op = "verifySignature",
                                     !.args = a, !.result = out.result,
                                     !.err = out.err]
    /\ UNCHANGED mandateVars
    /\ UNCHANGED <<sub, pay, poll, ver>>

\* the handler calls verifyAndParse
CallVerifyAndParse(a) ==
    /\ hook.pc = "ready"
    /\ LET out == verifyAndParseOutcome(a.payload, a.signature, a.secret)
       IN  hook' = [ReadyHook EXCEPT !.pc = "done", !.op = "verifyAndParse",
                                     !.args = a, !.value = out.value,
                                     !.parsed = out.parsed, !.err = out.err]
    /\ UNCHANGED mandateVars
    /\ UNCHANGED <<sub, pay, poll, ver>>

WebhookInit ==
    /\ config \in Configs
    /\ cachedMandateToken = 0
    /\ mandateExpiresAt = 0
    /\ now = 0
    /\ gwIssued = 0
    /\ gwBudget = [t \in Tokens |-> 0]
    /\ gwExp = [t \in Tokens |-> 0]
    /\ overlaps = 0
    /\ calls = [p \in Calls |-> IdleCall]
    /\ last = NoneEnded
    /\ sub = NoSubmit
    /\ pay = Unused
    /\ poll = Unused
    /\ hook = ReadyHook
    /\ ver = Unused

WebhookNext ==
    \/ \E a \in HookArgs : CallVerifySignature(a)
    \/ \E a \in HookArgs : CallVerifyAndParse(a)

WebhookSpec == WebhookInit /\ [][WebhookNext]_vars

-----------------------------------------------------------------------------
(* Properties of the webhook verification *)

\* all three arguments of the call are present
ArgsPresent ==
    \A f \in {"payload", "signature", "secret"} :
       hook.args[f].t = "string" /\ hook.args[f].s # <<>>

\* the signature of the call is the digest of its payload under its secret
Authentic ==
    hook.args.signature.s = createHmac(hook.args.secret.s, hook.args.payload.s)

\* the signature of the call is the digest of another payload, or was
\* computed under another secret
SignedOtherwise ==
    \E k \in Secrets, body \in Payloads :
       /\ <<k, body>> # <<hook.args.secret, hook.args.payload>>
       /\ hook.args.signature = Str(createHmac(k.s, body.s))

\* C18: with all three arguments present, verifySignature returns true
\* exactly when the signature equals the HMAC-SHA256 of the raw payload under
\* the secret, and false without raising otherwise, so for a signature of a
\* changed payload or under another secret; it raises only when an argument
\* is missing.
C18_TrueIffSignatureMatches ==
    (hook.pc = "done" /\ hook.op = "verifySignature")
    => /\ ArgsPresent
          => /\ hook.err = NoError
             /\ hook.result = Authentic
             /\ SignedOtherwise => hook.result = FALSE
       /\ hook.err # NoError <=> ~ArgsPresent

C18_Witness ==
    /\ hook.pc = "done"
    /\ hook.op = "verifySignature"
    /\ hook.args.payload = ChangedPayload
    /\ hook.args.secret = WebhookSecret
    /\ hook.args.signature = Str(createHmac(WebhookSecret.s, SentPayload.s))
    /\ hook.result = FALSE
    /\ hook.err = NoError

\* the raw payloads of the model that are well-formed JSON
WellFormedPayloads == {SentPayload, ChangedPayload}

\* C19: verifyAndParse never parses a payload whose signature has not
\* verified: with a non-matching signature it raises the authenticity error
\* and returns nothing, whatever the payload; with a matching signature it
\* raises a different error for a payload that is not well-formed JSON and
\* returns the parsed payload for one that is.
C19_VerifiesBeforeParsing ==
    (hook.pc = "done" /\ hook.op = "verifyAndParse")
    => /\ hook.parsed => (ArgsPresent /\ Authentic)
       /\ (ArgsPresent /\ ~Authentic)
          => /\ hook.err = InvalidSignature
             /\ hook.value = NoData
       /\ (ArgsPresent /\ Authentic /\ hook.args.payload \notin WellFormedPayloads)
          => /\ hook.err = InvalidJson
             /\ hook.err # InvalidSignature
             /\ hook.value = NoData
       /\ (ArgsPresent /\ Authentic /\ hook.args.payload \in WellFormedPayloads)
          => /\ hook.err = NoError
             /\ hook.value.t = "object"
             /\ hook.value.digit = hook.args.payload.s[6]

\* a truncated payload arrives with a signature that does not match it
C19_Witness ==
    /\ hook.pc = "done"
    /\ hook.op = "verifyAndParse"
    /\ hook.args.payload = TruncatedPayload
    /\ hook.args.secret = WebhookSecret
    /\ hook.args.signature = Str(createHmac(OtherSecret.s, TruncatedPayload.s))
    /\ hook.err = InvalidSignature
    /\ ~hook.parsed

-----------------------------------------------------------------------------
(* The three core operations of one application: ensureMandateValid,
   submitTxHash and waitForConfirmation. They share no state, and an
   application is followed through the one it uses. *)

CoreInit ==
    /\ config \in Configs
    /\ cachedMandateToken = 0
    /\ mandateExpiresAt = 0
    /\ now = 0
    /\ gwIssued = 0
    /\ gwBudget = [t \in Tokens |-> 0]
    /\ gwExp = [t \in Tokens |-> 0]
    /\ overlaps = 0
    /\ last = NoneEnded
    /\ pay = Unused
    /\ hook = Unused
    /\ ver = Unused
    /\ \/ /\ calls = [p \in Calls |-> IdleCall]
          /\ sub = NoSubmit
          /\ poll = Unused
       \/ /\ calls = [p \in Calls |-> [IdleCall EXCEPT !.pc = "unused"]]
          /\ sub = ReadySubmit
          /\ poll = Unused
       \/ /\ calls = [p \in Calls |-> [IdleCall EXCEPT !.pc = "unused"]]
          /\ sub = NoSubmit
          /\ poll = ReadyPoll

CoreNext ==
    \/ Next
    \/ (\E a \in DirectSubmitArgs : SubmitTxHash(a)) /\ UNCHANGED <<pay, poll, hook, ver>>
    \/ (\E ans \in SubmitResponses : SubmitResume(ans))
          /\ UNCHANGED <<pay, poll, hook, ver>>
    \/ SubmitReturn /\ UNCHANGED <<pay, poll, hook, ver>>
    \/ PollNext

CoreSpec == CoreInit /\ [][CoreNext]_vars

-----------------------------------------------------------------------------
(* Properties of the error handling across the core operations *)

\* in submitTxHash and waitForConfirmation a 429 answer ends the call with
\* the RateLimitError made from its headers, and no request follows it
RateLimitEndsSubmitAndPoll ==
    /\ (sub.pc = "done" /\ sub.ans.status = 429)
       => /\ sub.err = RateLimitOf(sub.ans)
          /\ sub.result = NoResult
    /\ poll.pc # "unused"
       => \A k \in 1..Polled :
             poll.answers[k].status = 429
             => /\ k = Polled
                /\ poll.pc = "done"
                /\ poll.err = RateLimitOf(poll.answers[k])
                /\ poll.sent = k

\* C20, as stated: in ensureMandateValid, submitTxHash and
\* waitForConfirmation a 429 answer to any request of the operation is
\* surfaced as a RateLimitError carrying retry-after, limit and remaining,
\* and the operation sends no further request.
C20_RateLimitAlwaysSurfaced ==
    /\ \A p \in Calls : calls[p].reported # "limited"
    /\ (last.at # "none" /\ last.ans.status = 429)
       => last.err = RateLimitOf(last.ans)
    /\ RateLimitEndsSubmitAndPoll

\* C20, amended: a 429 answer to the issuance request of ensureMandateValid,
\* to the request of submitTxHash or to a poll of waitForConfirmation is
\* surfaced as a RateLimitError carrying retry-after, limit and remaining,
\* and no request follows it; a 429 answer to the verification request
\* inside ensureMandateValid is not surfaced: the call goes on to issue a
\* new mandate.
C20_RateLimitSurfacedButForVerify ==
    /\ \A p \in Calls :
          calls[p].reported = "limited" => calls[p].pc \in {"issueReq", "issueResp"}
    /\ last.reported = "limited" => last.at = "issue"
    /\ (last.at = "issue" /\ last.ans.status = 429)
       => /\ last.err = RateLimitOf(last.ans)
          /\ last.ret = 0
          /\ last.issued = 0
    /\ RateLimitEndsSubmitAndPoll

\* a call whose verification was answered 429 has gone on to issue, and the
\* 429 that answered its issuance reaches the caller
C20_Witness ==
    /\ last.at = "issue"
    /\ last.reported = "limited"
    /\ last.ans.status = 429
    /\ last.err.name = "RateLimitError"
    /\ last.err.retryAfter = 30
    /\ last.err.remaining = 0

-----------------------------------------------------------------------------
(* modules/mandates.ts: MandatesModule.verify and checkBudget, called by the
   application itself *)

\* the call of verify or checkBudget (op) with its argument (token), the
\* answer to its request (ans), and what it returned or threw
ReadyVerify ==
    [pc |-> "ready", op |-> "none", token |-> Undefined, ans |-> NoAnswer,
     result |-> NoData, err |-> NoError]

\* verify, or checkBudget through its call of verify, up to the await of the
\* request
CallMandates(op, mandateToken) ==
    /\ ver.pc = "ready"
    /\ LET thrown == verifyValidation(mandateToken)
           called == [ReadyVerify EXCEPT !.op = op, !.token = mandateToken]
       IN  ver' = IF thrown # NoError
                  THEN [called EXCEPT !.pc = "done", !.err = thrown]
                  ELSE [called EXCEPT !.pc = "sent"]
    /\ UNCHANGED mandateVars
    /\ UNCHANGED <<sub, pay, poll, hook>>

\* from the answer to POST /mandates/verify to the end of the call
MandatesResume(ans) ==
    /\ ver.pc = "sent"
    /\ LET out == verifyOutcome(ans)
           \* checkBudget after its call of verify
           budget ==
               IF out.err # NoError THEN out
               ELSE IF ~out.data.valid \/ out.data.payload.t = "undefined"
               THEN [err |-> MandateError("INVALID_MANDATE"), data |-> NoData]
               ELSE [err |-> NoError,
                     data |-> ParseFloat(out.data.payload.budget_remaining)]
           settled == IF ver.op = "checkBudget" THEN budget ELSE out
       IN  ver' = [ver EXCEPT !.pc = "done", !.ans = ans,
                              !.result = settled.data, !.err = settled.err]
    /\ UNCHANGED mandateVars
    /\ UNCHANGED <<sub, pay, poll, hook>>

MandatesInit ==
    /\ config \in Configs
    /\ cachedMandateToken = 0
    /\ mandateExpiresAt = 0
    /\ now = 0
    /\ gwIssued = 0
    /\ gwBudget = [t \in Tokens |-> 0]
    /\ gwExp = [t \in Tokens |-> 0]
    /\ overlaps = 0
    /\ calls = [p \in Calls |-> IdleCall]
    /\ last = NoneEnded
    /\ sub = NoSubmit
    /\ pay = Unused
    /\ poll = Unused
    /\ hook = Unused
    /\ ver = ReadyVerify

\* the application verifies a token it holds, or asks for its budget: a
\* mandate token, or a text that is none; the gateway answers for a mandate
\* it honours, with some budget left or none, or for one it does not honour
MandatesNext ==
    \/ \E op \in {"verify", "checkBudget"},
          mandateToken \in {MandateTokenText(t) : t \in Tokens}
                           \cup {Str(<<"a", ".", "b", ".", "c">>), EmptyString} :
          CallMandates(op, mandateToken)
    \/ \E snap \in {Snapshot(TRUE, b) : b \in {0, DustThreshold, 10000}}
                   \cup {Snapshot(FALSE, 0)} :
          \E ans \in VerifyResponses(snap) : MandatesResume(ans)

MandatesSpec == MandatesInit /\ [][MandatesNext]_vars

-----------------------------------------------------------------------------
(* Properties of MandatesModule.verify *)

\* C21: for a token the gateway reports as invalid with an error message,
\* mandates.verify returns the verification result {valid: false, error} to
\* its caller and raises nothing.
C21_InvalidResultReturned ==
    (/\ ver.pc = "done"
     /\ ver.op = "verify"
     /\ ver.ans.status = 200
     /\ ver.ans.data.t = "object"
     /\ ~ver.ans.data.valid
     /\ ver.ans.data.error)
    => /\ ver.err = NoError
       /\ ver.result = ver.ans.data

-----------------------------------------------------------------------------
(* Properties of the requests the core operations send *)

C23_ColdCallSendsOneIssue ==
    /\ \A p \in Calls :
          (Active(calls[p]) /\ calls[p].cold)
          => /\ calls[p].verifies = 0
             /\ calls[p].issues = 1
    /\ (last.at # "none" /\ last.cold)
       => /\ last.verifies = 0
          /\ last.issues = 1

\* C23, amended: such a call sends no verify request and goes directly to
\* issuance; the issue request is the only request it sends, and it sends
\* none at all when the issuance rejects a configured TTL below zero before
\* its request (MandateError INVALID_TTL).
C23_ColdCallGoesToIssuance ==
    /\ \A p \in Calls :
          (Active(calls[p]) /\ calls[p].cold)
          => /\ calls[p].pc \in {"issueReq", "issueResp"}
             /\ calls[p].tok = 0
             /\ calls[p].verifies = 0
             /\ calls[p].issues = 1
    /\ (last.at # "none" /\ last.cold)
       => /\ last.at = "issue"
          /\ last.tok = 0
          /\ last.verifies = 0
          /\ IF last.ans = NoAnswer
             THEN /\ last.issues = 0
                  /\ last.err = MandateError("INVALID_TTL")
             ELSE last.issues = 1

\* a call entered with an expired token in the cache has issued a new
\* mandate without verifying the old one
C23_Witness ==
    /\ last.at = "issue"
    /\ last.cold
    /\ last.cacheWas # 0
    /\ last.cacheWas # last.issued
    /\ last.issued # 0
    /\ last.verifies = 0
    /\ last.issues = 1

-----------------------------------------------------------------------------
(* Properties of the mandate cache *)

\* C24: wherever a call is suspended, and so wherever another call can
\* observe the cache, the cached token and the cached expiry come from the
\* same issuance response: the cache is empty, or it holds a token the
\* gateway issued together with the expiry the gateway gave that token.
C24_CacheNeverTorn ==
    IF cachedMandateToken = 0
    THEN mandateExpiresAt = 0
    ELSE /\ cachedMandateToken \in 1..gwIssued
         /\ mandateExpiresAt = gwExp[cachedMandateToken] * MsPerSecond

\* the cache holds a second mandate, whose expiry differs from that of the
\* first, while another call is suspended
C24_Witness ==
    /\ cachedMandateToken = 2
    /\ gwExp[1] # gwExp[2]
    /\ mandateExpiresAt = gwExp[2] * MsPerSecond
    /\ \E p \in Calls : calls[p].pc \in {"verifyReq", "verifyResp", "issueReq",
                                         "issueResp"}

-----------------------------------------------------------------------------
(* Properties of the pace of waitForConfirmation *)

\* C25: waitForConfirmation sleeps intervalMs between every two consecutive
\* polls, whether the earlier of them was answered pending or not-found: a
\* call that has sent n polls has slept at least n - 1 times.
C25_SleepsBetweenPolls ==
    poll.pc \in {"polling", "sleeping", "done"}
    => poll.sleeps >= poll.sent - 1

-----------------------------------------------------------------------------
(* Properties of the issuance request *)

\* C26: every issue request of ensureMandateValid carries the configured
\* subject (agentId), budget, scope ("*" when none is configured) and TTL
\* (10080 minutes when none is configured) in a body with the fields
\* subject, budget_usd, scope and ttl_minutes.
C26_IssueRequestFields ==
    \A p \in Calls :
       calls[p].req # NoRequest
       => /\ {"subject", "budget_usd", "scope", "ttl_minutes"}
                \subseteq DOMAIN calls[p].req
          /\ calls[p].req.subject = config.agentId
          /\ calls[p].req.budget_usd = config.budgetUsd
          /\ calls[p].req.scope = IF config.scope = Undefined THEN Str(<<"*">>)
                                  ELSE config.scope
          /\ calls[p].req.ttl_minutes = IF config.ttlMinutes = Undefined
                                        THEN Num(DefaultTtlMinutes)
                                        ELSE config.ttlMinutes

-----------------------------------------------------------------------------
(* Properties of the settlement request *)

\* C27: every settlement request of submitTxHash carries the mandate token
\* and a payment assertion with scheme "eip3009" and the primary hash as
\* tx_hash; the assertion carries tx_hash_commission exactly when a
\* commission hash was given; a call with valid arguments and no commission
\* hash sends its request, and an accepting answer settles it.
C27_AssertionCarriesHashes ==
    LET given == /\ sub.args.txHashCommission.t = "string"
                 /\ sub.args.txHashCommission.s # <<>>
    IN  /\ (sub.pc \in {"sent", "done"} /\ sub.request # NoRequest)
           => /\ sub.request.xMandate = sub.args.mandate
              /\ sub.request.xPayment.scheme = "eip3009"
              /\ sub.request.xPayment.tx_hash = sub.args.txHash
              /\ IF given
                 THEN sub.request.xPayment.tx_hash_commission
                         = sub.args.txHashCommission
                 ELSE sub.request.xPayment.tx_hash_commission = Undefined
        /\ (/\ sub.pc \in {"sent", "done"}
            /\ WellFormedArgs(sub.args)
            /\ sub.args.txHashCommission = Undefined)
           => /\ sub.request # NoRequest
              /\ (sub.pc = "done" /\ IsSuccessStatus(sub.ans.status))
                 => /\ sub.err = NoError
                    /\ sub.result.success
                    /\ sub.result.status = "completed"
                    /\ sub.result.txHash = sub.args.txHash

\* a payment submitted without a commission hash has been settled
C27_Witness ==
    /\ sub.pc = "done"
    /\ sub.request # NoRequest
    /\ sub.args.txHashCommission = Undefined
    /\ sub.request.xPayment.tx_hash = GoodTxHash
    /\ sub.request.xPayment.tx_hash_commission = Undefined
    /\ sub.ans.status = 200
    /\ sub.result.success

-----------------------------------------------------------------------------
(* Properties of the reuse path under overlapping calls *)

\* C28: a call that ends on the reuse path returns the very token it sent to
\* verification, also when an overlapping call has replaced the cache while
\* that verification was in flight; no call returns a token it has neither
\* verified nor issued itself.
C28_ReturnsVerifiedToken ==
    /\ (last.at = "verify" /\ last.err = NoError) => last.ret = last.tok
    /\ (last.at # "none" /\ last.err = NoError)
       => \/ last.ret = last.issued
          \/ last.ret = last.tok /\ last.reported = "sufficient"

-----------------------------------------------------------------------------
(* Termination of waitForConfirmation *)

\* C29: when every poll request is answered and every sleep ends, a
\* waitForConfirmation call that awaits a poll or a sleep eventually ends, by
\* returning a record or by raising; until then it awaits nothing but its
\* own polls and sleeps, of which there are at most maxAttempts each.
C29_PollingTerminates ==
    /\ [](poll.pc \in {"polling", "sleeping"}
          => /\ poll.sent <= poll.args.maxAttempts
             /\ poll.sleeps <= poll.args.maxAttempts)
    /\ (poll.pc \in {"polling", "sleeping"}) ~> (poll.pc = "done")

\* a call has run out of its two attempts, the first answered pending and
\* followed by a sleep, the second answered not-found
C29_Witness ==
    /\ poll.pc = "done"
    /\ poll.args.maxAttempts = 2
    /\ poll.sent = 2
    /\ poll.sleeps = 1
    /\ StatusOf(poll.answers[2]) = "notfound"
    /\ poll.err = TimeoutError(GoodTxHash, 2)

-----------------------------------------------------------------------------
(* The frame of the mandate cache *)

\* C30: the mandate cache changes only through a successful issuance: every
\* step that changes the cached token or the cached expiry is the end of a
\* call whose issuance yielded the mandate now cached; so a call whose
\* issuance fails, and a call that takes the reuse path, end with the cache
\* as their last step found it, and no other step of theirs touches it.
C30_CacheChangesOnlyOnIssue ==
    /\ [][(cachedMandateToken' # cachedMandateToken
           \/ mandateExpiresAt' # mandateExpiresAt)
          => /\ last'.at = "issue"
             /\ last'.err = NoError
             /\ CarriesMandate(last'.ans)
             /\ last'.issued = cachedMandateToken'
             /\ last'.ret = cachedMandateToken']_vars
    /\ []((last.at # "none" /\ (last.err # NoError \/ last.at = "verify"))
          => /\ last.issued = 0
             /\ cachedMandateToken = last.cacheWas
             /\ mandateExpiresAt = last.expiresWas)

\* a call has ended on a failed issuance while the cache holds a mandate
C30_Witness ==
    /\ last.at = "issue"
    /\ last.err # NoError
    /\ last.issues = 1
    /\ last.cacheWas # 0
    /\ cachedMandateToken = last.cacheWas
    /\ mandateExpiresAt = last.expiresWas

====
